---- MODULE Spec2Model ----
(***************************************************************************)
(* Model of src/main.py: the SDS document downloader.                      *)
(*                                                                         *)
(* main() fetches the manifest (fetch_sds_index), creates the output       *)
(* directory (create_directory) and calls the effective (second)           *)
(* definition of download_all_sds_files, which plans the downloads         *)
(* (prepare_download + the filter loop), submits them to a                 *)
(* ThreadPoolExecutor and counts the results with as_completed.            *)
(*                                                                         *)
(* Strings are sequences of one-character strings; a manifest item is a    *)
(* function whose DOMAIN is the set of keys present in the JSON object.    *)
(* The manifest server, the directory and the files are the environment:   *)
(* they are chosen in Init and only the program changes them afterwards.   *)
(*                                                                         *)
(* Spec is the program run up to MaxRuns times on the same manifest and    *)
(* directory; SanSpec is sanitize_filename called on its own on every      *)
(* string of at most MaxNameLen characters.                                *)
(***************************************************************************)
EXTENDS Integers, Sequences, FiniteSets, TLC

\* ------------------------------------------------------------------ bounds
MaxItems == 2
MaxDownloadsBound == 2
MaxWorkersBound == 2
MaxRuns == 2

\* --------------------------------------------------------------- characters
AsciiLetters == {"S", "T", "U", "E", "G", "A", "X", "P", "D", "F", "a", "b", "c",
                 "d", "f", "k", "n", "o", "p", "r", "s", "t", "u", "w"}
AsciiDigits == {"1"}
\* letters and digits outside ASCII for which str.isalnum() is True
NonAsciiAlnum == {"e_acute", "superscript_2"}
Whitespace == {" ", "tab"}

\* c.isalnum()
isalnum(c) == c \in AsciiLetters \cup AsciiDigits \cup NonAsciiAlnum

\* c.isspace()
isspace(c) == c \in Whitespace

\* the generator expression of sanitize_filename: keep c when
\* c.isalnum() or c in ("_", "-", ".", " ")
KeepChar(c) == isalnum(c) \/ c \in {"_", "-", ".", " "}

RECURSIVE FilterChars(_)
FilterChars(s) ==
    IF s = <<>> THEN <<>>
    ELSE IF KeepChar(Head(s)) THEN <<Head(s)>> \o FilterChars(Tail(s))
         ELSE FilterChars(Tail(s))

\* str.rstrip(): drop trailing whitespace
RECURSIVE rstrip(_)
rstrip(s) ==
    IF s = <<>> THEN <<>>
    ELSE IF isspace(s[Len(s)]) THEN rstrip(SubSeq(s, 1, Len(s) - 1))
         ELSE s

\* sanitize_filename without the final rstrip()
sanitize_filename_no_rstrip(name) == FilterChars(name)

sanitize_filename(name) == rstrip(FilterChars(name))

\* str.replace(" ", "_")
RECURSIVE ReplaceSpaces(_)
ReplaceSpaces(s) ==
    IF s = <<>> THEN <<>>
    ELSE <<IF Head(s) = " " THEN "_" ELSE Head(s)>> \o ReplaceSpaces(Tail(s))

\* ------------------------------------------------------------------- items
\* dict.get(key, default)
Get(item, key, default) == IF key \in DOMAIN item THEN item[key] ELSE default

DefaultSpecId == <<"u", "n", "k", "n", "o", "w", "n">>
DefaultCode == <<"X", "X">>
DefaultProduct == <<"p", "r", "o", "d", "u", "c", "t">>
PdfSuffix == <<".", "p", "d", "f">>
OutputDir == <<"P", "D", "F", "s">>

\* `not file_url` is False: the key is present and the string is not empty
HasUrl(item) == "URL" \in DOMAIN item /\ item["URL"] # <<>>

\* the f-string of prepare_download, sanitized
Filename(item) ==
    sanitize_filename(Get(item, "SpecIdFull", DefaultSpecId) \o <<"_">>
                      \o Get(item, "CountryCode", DefaultCode) \o <<"_">>
                      \o Get(item, "LanguageCode", DefaultCode) \o <<"_">>
                      \o ReplaceSpaces(Get(item, "ProductName", DefaultProduct))
                      \o PdfSuffix)

\* os.path.join(output_dir, filename)
OutputPath(item) == OutputDir \o <<"/">> \o Filename(item)

\* The manifest items the model draws from: two items with different urls
\* and the same sanitized filename, an item that relies on the defaults, an
\* item without the URL key and an item whose URL is the empty string.
ItemA == [URL |-> <<"a">>, SpecIdFull |-> <<"S", "1">>, CountryCode |-> <<"U">>,
          LanguageCode |-> <<"E">>, ProductName |-> <<"G">>]
ItemB == [URL |-> <<"b">>, SpecIdFull |-> <<"S", "/", "1">>, CountryCode |-> <<"U">>,
          LanguageCode |-> <<"E">>, ProductName |-> <<"G">>]
ItemC == [URL |-> <<"c">>, ProductName |-> <<"A", " ", "G">>]
ItemD == [SpecIdFull |-> <<"T">>]
ItemE == [URL |-> <<>>, SpecIdFull |-> <<"T">>]
ItemPool == {ItemA, ItemB, ItemC, ItemD, ItemE}

\* the paths the program can look at or write
Paths == {OutputPath(it) : it \in {i \in ItemPool : HasUrl(i)}}

\* a manifest lists every document once
ItemLists ==
    UNION {{l \in [1..n -> ItemPool] : \A i, j \in 1..n : i # j => l[i] # l[j]} :
           n \in 0..MaxItems}

\* --------------------------------------------------------------- responses
\* what the manifest server answers to requests.get(index_url)
TransportFailures == {"timeout", "connection_error", "bad_status"}
Responses == TransportFailures \cup {"unparsable", "no_items_list", "not_object", "ok"}

VARIABLES
    pc,            \* position of the main thread
    run,           \* number of the current run of main
    response,      \* environment: the answer of the manifest server
    manifest,      \* environment: the Items list of the manifest
    dir,           \* environment: "absent", "present" or "blocked"
    mkdir_calls,   \* history: calls of os.makedirs in the current run
    fs,            \* environment: state of the file at every path
    fs0,           \* history: fs as it was when the current run began
    max_workers,   \* argument of download_all_sds_files
    max_downloads, \* argument of download_all_sds_files
    items,         \* main: the list returned by fetch_sds_index
    idx,           \* number of items the planning loop has taken
    to_download,   \* the list of (url, path) pairs
    futures,       \* one record per submitted future
    consumed,      \* futures the as_completed loop has taken
    success_count, \* download_all_sds_files: success_count
    log,           \* one record per finished run
    prev_failed,   \* history: the failed tasks of the previous run
    san_in,        \* argument of a direct call of sanitize_filename
    san_out        \* its result

vars == <<pc, run, response, manifest, dir, mkdir_calls, fs, fs0, max_workers, max_downloads,
          items, idx, to_download, futures, consumed, success_count, log,
          prev_failed, san_in, san_out>>

\* what no step inside a run changes
aux == <<san_in, san_out, prev_failed>>

env == <<response, manifest, max_workers, max_downloads>>

FileStates == {"absent", "old", "partial", "full"}

Init ==
    /\ pc = "fetch"
    /\ run = 1
    /\ response \in Responses
    /\ manifest \in (IF response = "ok" THEN ItemLists ELSE {<<>>})
    /\ dir \in {"absent", "present", "blocked"}
    /\ mkdir_calls = 0
    /\ fs \in [Paths -> {"absent", "old"}]
    /\ (dir # "present" => \A p \in Paths : fs[p] = "absent")
    /\ fs0 = fs
    /\ max_workers \in 1..MaxWorkersBound
    /\ max_downloads \in 0..MaxDownloadsBound
    /\ items = <<>>
    /\ idx = 0
    /\ to_download = <<>>
    /\ futures = <<>>
    /\ consumed = {}
    /\ success_count = 0
    /\ log = <<>>
    /\ prev_failed = [early |-> {}, late |-> {}]
    /\ san_in = <<>>
    /\ san_out = <<>>

\* a final line that shows the number of planned tasks as the total
SummaryOfAttempted(ended) ==
    [ended |-> ended, discovered |-> Len(to_download), attempted |-> Len(to_download),
     succeeded |-> success_count]

\* what a run leaves behind: how it ended, the numbers of the final line
\* (succeeded/discovered) and the number of planned tasks
Summary(ended) ==
    [ended |-> ended, discovered |-> Len(items), attempted |-> Len(to_download),
     succeeded |-> success_count]

\* ---------------------------------------------------------- fetch_sds_index
\* The list fetch_sds_index returns, or Raises when an exception that is
\* not a requests.RequestException leaves it.  response.json() raises
\* requests.exceptions.JSONDecodeError, a RequestException; data.get on a
\* top-level value that is not an object raises AttributeError.
Returns(v) == [raised |-> FALSE, value |-> v]
Raises == [raised |-> TRUE, value |-> <<>>]

fetch_sds_index ==
    CASE response \in TransportFailures -> Returns(<<>>)
      [] response = "unparsable" -> Returns(<<>>)
      [] response = "no_items_list" -> Returns(<<>>)
      [] response = "not_object" -> Raises
      [] response = "ok" -> Returns(manifest)

FetchIndex ==
    /\ pc = "fetch"
    /\ IF fetch_sds_index.raised
       THEN /\ pc' = "raised"
            /\ log' = Append(log, Summary("raised"))
            /\ UNCHANGED items
       ELSE /\ items' = fetch_sds_index.value
            /\ pc' = "fetched"
            /\ UNCHANGED log
    /\ UNCHANGED <<run, env, aux, dir, mkdir_calls, fs, fs0, idx, to_download, futures, consumed,
                   success_count>>

\* a test that never takes the early return
NoItemsNever(its) == FALSE

\* `not items`
NoItems(its) == its = <<>>

\* main: if not items: return
CheckItems ==
    /\ pc = "fetched"
    /\ IF NoItems(items)
       THEN /\ pc' = "done"
            /\ log' = Append(log, Summary("no_items"))
       ELSE /\ pc' = "mkdir"
            /\ UNCHANGED log
    /\ UNCHANGED <<run, env, aux, dir, mkdir_calls, fs, fs0, items, idx, to_download, futures,
                   consumed, success_count>>

\* ---------------------------------------------------------- create_directory
\* a create_directory that reports success whatever os.makedirs did
create_directory_always_true == TRUE

\* os.makedirs(path, exist_ok=True) raises OSError when the directory cannot
\* be made: return False; otherwise return True
create_directory == dir # "blocked"

\* the directory after os.makedirs(path, exist_ok=True)
makedirs == IF dir = "blocked" THEN "blocked" ELSE "present"

CreateDirectory ==
    /\ pc = "mkdir"
    /\ dir' = makedirs
    /\ mkdir_calls' = mkdir_calls + 1
    /\ IF create_directory
       THEN /\ pc' = "plan"
            /\ UNCHANGED log
       ELSE /\ pc' = "done"
            /\ log' = Append(log, Summary("no_directory"))
    /\ UNCHANGED <<run, env, aux, fs, fs0, items, idx, to_download, futures, consumed,
                   success_count>>

\* ------------------------------------------------------------ planning loop
\* an existence check that never finds the file
exists_never(path) == FALSE

\* os.path.exists(output_path)
exists(path) == fs[path] # "absent"

None == <<>>

\* prepare_download without the skip of an existing destination
prepare_download_no_skip(item) ==
    IF ~HasUrl(item) THEN None
    ELSE <<item["URL"], OutputPath(item)>>

\* prepare_download(item): None, or the pair (file_url, output_path);
\* `if result` is True exactly for the pair
prepare_download(item) ==
    IF ~HasUrl(item) THEN None
    ELSE IF exists(OutputPath(item)) THEN None
    ELSE <<item["URL"], OutputPath(item)>>

\* the test that ends the filter loop
CapReached(n) == n >= max_downloads

\* an iteration that submits the task as soon as it is planned, as the
\* shadowed first definition of download_all_sds_files does
PlanStepSubmitting ==
    /\ pc = "plan"
    /\ idx < Len(items)
    /\ LET result == prepare_download(items[idx + 1])
           next == IF result # None THEN Append(to_download, result)
                   ELSE to_download
       IN /\ to_download' = next
          /\ futures' = IF result # None
                        THEN Append(futures, [state |-> "queued", result |-> "none",
                                              opened |-> FALSE])
                        ELSE futures
          /\ idx' = idx + 1
          /\ pc' = IF CapReached(Len(next)) \/ idx + 1 = Len(items)
                   THEN "submit" ELSE "plan"
    /\ UNCHANGED <<run, env, aux, dir, mkdir_calls, fs, fs0, items, consumed,
                   success_count, log>>

\* one iteration of `for item in items`
PlanStep ==
    /\ pc = "plan"
    /\ idx < Len(items)
    /\ LET result == prepare_download(items[idx + 1])
           next == IF result # None THEN Append(to_download, result)
                   ELSE to_download
       IN /\ to_download' = next
          /\ idx' = idx + 1
          /\ pc' = IF CapReached(Len(next)) \/ idx + 1 = Len(items)
                   THEN "submit" ELSE "plan"
    /\ UNCHANGED <<run, env, aux, dir, mkdir_calls, fs, fs0, items, futures, consumed,
                   success_count, log>>

\* ------------------------------------------------------ ThreadPoolExecutor
Path(task) == task[2]

Tasks == 1..Len(futures)
Queued == {t \in Tasks : futures[t].state = "queued"}
InFlight == {t \in Tasks : futures[t].state \in {"running", "opened"}}
Finished == {t \in Tasks : futures[t].state = "finished"}

Min(S) == CHOOSE m \in S : \A n \in S : m <= n

\* a pool that lets one transfer too many start
WorkerAvailableOffByOne == Cardinality(InFlight) <= max_workers

\* ThreadPoolExecutor(max_workers=max_workers): a worker thread is free
WorkerAvailable == Cardinality(InFlight) < max_workers

\* opened: open(output_path, "wb") has succeeded in this call of download_file
SetFuture(t, st, res) ==
    [futures EXCEPT ![t] = [state |-> st, result |-> res,
                            opened |-> futures[t].opened \/ st = "opened"]]

\* futures = [executor.submit(download_file, url, path) for ...]: every
\* planned task is queued, then the as_completed loop begins
SubmitAll ==
    /\ pc = "submit"
    /\ futures' = [t \in 1..Len(to_download) |->
                    [state |-> "queued", result |-> "none", opened |-> FALSE]]
    /\ pc' = "aggregate"
    /\ UNCHANGED <<run, env, aux, dir, mkdir_calls, fs, fs0, items, idx, to_download, consumed,
                   success_count, log>>

\* a worker thread takes the oldest queued work item and calls download_file
StartTask ==
    /\ Queued # {}
    /\ WorkerAvailable
    /\ futures' = SetFuture(Min(Queued), "running", "none")
    /\ UNCHANGED <<pc, run, env, aux, dir, mkdir_calls, fs, fs0, items, idx, to_download, consumed,
                   success_count, log>>

\* ------------------------------------------------------------ download_file
\* requests.get raises a RequestException (timeout, connection error):
\* return False
TransportFails(t) ==
    /\ t \in Tasks
    /\ futures[t].state = "running"
    /\ futures' = SetFuture(t, "finished", "False")
    /\ UNCHANGED <<pc, run, env, aux, dir, mkdir_calls, fs, fs0, items, idx, to_download, consumed,
                   success_count, log>>

\* response.raise_for_status() raises HTTPError, a RequestException:
\* return False
StatusFails(t) ==
    /\ t \in Tasks
    /\ futures[t].state = "running"
    /\ futures' = SetFuture(t, "finished", "False")
    /\ UNCHANGED <<pc, run, env, aux, dir, mkdir_calls, fs, fs0, items, idx, to_download, consumed,
                   success_count, log>>

\* open(output_path, "wb") raises OSError, which download_file does not catch
OpenFails(t) ==
    /\ t \in Tasks
    /\ futures[t].state = "running"
    /\ futures' = SetFuture(t, "finished", "raise")
    /\ UNCHANGED <<pc, run, env, aux, dir, mkdir_calls, fs, fs0, items, idx, to_download, consumed,
                   success_count, log>>

\* open(output_path, "wb") creates or truncates the file
OpenFile(t) ==
    /\ t \in Tasks
    /\ futures[t].state = "running"
    /\ fs' = [fs EXCEPT ![Path(to_download[t])] = "partial"]
    /\ futures' = SetFuture(t, "opened", "none")
    /\ UNCHANGED <<pc, run, env, aux, dir, mkdir_calls, fs0, items, idx, to_download, consumed,
                   success_count, log>>

\* every chunk written, the file closed: return True
WriteBody(t) ==
    /\ t \in Tasks
    /\ futures[t].state = "opened"
    /\ fs' = [fs EXCEPT ![Path(to_download[t])] = "full"]
    /\ futures' = SetFuture(t, "finished", "True")
    /\ UNCHANGED <<pc, run, env, aux, dir, mkdir_calls, fs0, items, idx, to_download, consumed,
                   success_count, log>>

\* response.iter_content raises a RequestException: return False, the file
\* stays as it is
BodyFails(t) ==
    /\ t \in Tasks
    /\ futures[t].state = "opened"
    /\ futures' = SetFuture(t, "finished", "False")
    /\ UNCHANGED <<pc, run, env, aux, dir, mkdir_calls, fs, fs0, items, idx, to_download, consumed,
                   success_count, log>>

\* f.write raises OSError, which download_file does not catch
WriteFails(t) ==
    /\ t \in Tasks
    /\ futures[t].state = "opened"
    /\ futures' = SetFuture(t, "finished", "raise")
    /\ UNCHANGED <<pc, run, env, aux, dir, mkdir_calls, fs, fs0, items, idx, to_download, consumed,
                   success_count, log>>

\* -------------------------------------------------------- aggregation loop
\* one iteration of `for future in as_completed(futures)`: future.result()
\* returns the value or re-raises
Consume(t) ==
    /\ pc = "aggregate"
    /\ t \in Finished \ consumed
    /\ consumed' = consumed \cup {t}
    /\ success_count' = IF futures[t].result = "True" THEN success_count + 1
                        ELSE success_count
    /\ pc' = IF futures[t].result = "raise" THEN "unwinding" ELSE "aggregate"
    /\ UNCHANGED <<run, env, aux, dir, mkdir_calls, fs, fs0, items, idx, to_download, futures, log>>

\* an exit of the with block that does not wait for the workers
ShutdownNoWait == TRUE

\* ThreadPoolExecutor.__exit__: executor.shutdown(wait=True) returns when
\* every submitted work item has run
ShutdownWait == Finished = Tasks

\* leaving the with block: executor.shutdown(wait=True), then return
\* success_count
ReturnCount ==
    /\ pc = "aggregate"
    /\ consumed = Tasks
    /\ ShutdownWait
    /\ pc' = "report"
    /\ UNCHANGED <<run, env, aux, dir, mkdir_calls, fs, fs0, items, idx, to_download, futures,
                   consumed, success_count, log>>

\* leaving the with block with an exception: executor.shutdown(wait=True),
\* then the exception leaves download_all_sds_files and main
Propagate ==
    /\ pc = "unwinding"
    /\ ShutdownWait
    /\ pc' = "raised"
    /\ log' = Append(log, Summary("raised"))
    /\ UNCHANGED <<run, env, aux, dir, mkdir_calls, fs, fs0, items, idx, to_download, futures,
                   consumed, success_count>>

\* main: print "Completed: count/len(items)"
Report ==
    /\ pc = "report"
    /\ pc' = "done"
    /\ log' = Append(log, Summary("reported"))
    /\ UNCHANGED <<run, env, aux, dir, mkdir_calls, fs, fs0, items, idx, to_download, futures,
                   consumed, success_count>>

\* the tasks of the run whose download_file returned False before open()
FailedBeforeOpen ==
    {to_download[t] : t \in {u \in Tasks : futures[u].result = "False"
                                            /\ ~futures[u].opened}}

\* the tasks of the run that failed after open() had created the file
FailedAfterOpen ==
    {to_download[t] : t \in {u \in Tasks : futures[u].result \in {"False", "raise"}
                                            /\ futures[u].opened}}

\* the program is started again on the same manifest and output directory
Rerun ==
    /\ pc \in {"done", "raised"}
    /\ run < MaxRuns
    /\ run' = run + 1
    /\ pc' = "fetch"
    /\ items' = <<>>
    /\ idx' = 0
    /\ to_download' = <<>>
    /\ futures' = <<>>
    /\ consumed' = {}
    /\ success_count' = 0
    /\ fs0' = fs
    /\ mkdir_calls' = 0
    /\ prev_failed' = [early |-> FailedBeforeOpen, late |-> FailedAfterOpen]
    /\ UNCHANGED <<env, san_in, san_out, dir, fs, log>>

TaskIds == 1..(MaxItems + 1)

Next ==
    \/ FetchIndex
    \/ CheckItems
    \/ CreateDirectory
    \/ PlanStep
    \/ SubmitAll
    \/ StartTask
    \/ \E t \in TaskIds : TransportFails(t)
    \/ \E t \in TaskIds : StatusFails(t)
    \/ \E t \in TaskIds : OpenFails(t)
    \/ \E t \in TaskIds : OpenFile(t)
    \/ \E t \in TaskIds : WriteBody(t)
    \/ \E t \in TaskIds : BodyFails(t)
    \/ \E t \in TaskIds : WriteFails(t)
    \/ \E t \in TaskIds : Consume(t)
    \/ ReturnCount
    \/ Propagate
    \/ Report
    \/ Rerun

Spec == Init /\ [][Next]_vars

\* ------------------------------------------- sanitize_filename on its own
MaxNameLen == 3

\* an ASCII letter and digit, the four characters kept by name, a
\* punctuation character, a whitespace character other than the space, a
\* letter and a digit outside ASCII
NameAlphabet == {"a", "1", "_", "-", ".", " ", "/", "tab", "e_acute", "superscript_2"}

Names == UNION {[1..n -> NameAlphabet] : n \in 0..MaxNameLen}

SanInit ==
    /\ pc = "sanitize"
    /\ san_in \in Names
    /\ san_out = <<>>
    /\ run = 1
    /\ response = "ok"
    /\ manifest = <<>>
    /\ dir = "present"
    /\ mkdir_calls = 0
    /\ fs = [p \in Paths |-> "absent"]
    /\ fs0 = fs
    /\ max_workers = 1
    /\ max_downloads = 0
    /\ items = <<>>
    /\ idx = 0
    /\ to_download = <<>>
    /\ futures = <<>>
    /\ consumed = {}
    /\ success_count = 0
    /\ log = <<>>
    /\ prev_failed = [early |-> {}, late |-> {}]

\* the call sanitize_filename(san_in)
Sanitize ==
    /\ pc = "sanitize"
    /\ san_out' = sanitize_filename(san_in)
    /\ pc' = "sanitized"
    /\ UNCHANGED <<run, env, dir, mkdir_calls, fs, fs0, items, idx, to_download,
                   futures, consumed, success_count, log, prev_failed, san_in>>

SanNext == Sanitize

SanSpec == SanInit /\ [][SanNext]_vars

TypeOK ==
    /\ pc \in {"fetch", "fetched", "mkdir", "plan", "submit", "aggregate",
               "unwinding", "report", "raised", "done", "sanitize", "sanitized"}
    /\ run \in 1..MaxRuns
    /\ fs \in [Paths -> FileStates]
    /\ idx \in 0..Len(items)
    /\ Len(futures) <= Len(to_download)
    /\ consumed \subseteq Tasks
    /\ success_count \in 0..Len(to_download)
    /\ Len(log) <= run
    /\ mkdir_calls \in 0..1

\* ===================================================================== claims
Succeeded == {t \in Tasks : futures[t].result = "True"}
Failed == {t \in Tasks : futures[t].result \in {"False", "raise"}}

\* download_all_sds_files has handed control back to main
Left == pc \in {"report", "done", "raised"} /\ to_download # <<>>

\* ---------------------------------------------------------------------- C1
\* C1: the planning loop emits at most max_downloads tasks (max_downloads = 0
\* included), and the destination of every emitted task did not exist when
\* the item was planned.
C1_AtMostMaxTasks ==
    /\ Len(to_download) <= max_downloads
    /\ \A k \in 1..Len(to_download) : fs0[Path(to_download[k])] = "absent"

\* ---------------------------------------------------------------------- C2
StartsTransfer ==
    \E t \in Tasks : /\ futures[t].state = "queued"
                     /\ t \in DOMAIN futures'
                     /\ futures'[t].state # "queued"

\* C2: the number of transfers started and not finished never exceeds
\* max_workers, and a queued task starts only in a step taken while fewer
\* than max_workers transfers are running.
C2_BoundedInFlight ==
    /\ [](Cardinality(InFlight) <= max_workers)
    /\ [][StartsTransfer => Cardinality(InFlight) < max_workers]_vars

\* the pool is full and a submitted task waits in the queue
C2_Witness == Cardinality(InFlight) = max_workers /\ Queued # {}

\* ---------------------------------------------------------------------- C3
\* C3: every submitted task yields one outcome that the aggregation loop
\* takes exactly once; attempted is the number of planned tasks;
\* succeeded <= outcomes taken <= attempted in every state; at the end
\* succeeded is the number of Success outcomes.
C3_EveryOutcomeCountedOnce ==
    /\ success_count <= Cardinality(consumed)
    /\ Cardinality(consumed) <= Len(to_download)
    /\ Left => /\ Len(futures) = Len(to_download)
               /\ consumed = Tasks
               /\ success_count = Cardinality(Succeeded)

\* ---------------------------------------------------------------------- C4
\* C4: a transfer that ends in a transport error, a non-2xx status or a
\* failure to open or write the file makes download_file return False, and
\* no exception reaches the aggregation loop.
C4_FailureReturnsFalse ==
    /\ [][\A t \in TaskIds :
            (TransportFails(t) \/ StatusFails(t) \/ OpenFails(t) \/ WriteFails(t))
                => futures'[t].result = "False"]_vars
    /\ [](pc # "unwinding")

\* ---------------------------------------------------------------------- C5
\* C5: when a task fails, every other submitted task still runs to its own
\* outcome and is counted: the final succeeded is the number of tasks that
\* succeeded.
C5_FailureLeavesSiblingsCounted ==
    (Left /\ Failed # {}) =>
        /\ Finished = 1..Len(to_download)
        /\ success_count = Cardinality(Succeeded)

\* ---------------------------------------------------------------------- C6
\* the destination of every item of the pool
DestinationOf == [it \in ItemPool |-> OutputPath(it)]

\* every manifest item that has a url has a file at its destination in f
AllDestinationsExist(f) ==
    \A i \in 1..Len(manifest) :
        HasUrl(manifest[i]) => f[DestinationOf[manifest[i]]] # "absent"

SecondRunIdle ==
    /\ to_download = <<>>
    /\ futures = <<>>
    /\ success_count = 0
    /\ (Len(log) = run => log[run].attempted = 0 /\ log[run].succeeded = 0)

\* C6 as stated: whatever the first run did, a second run plans and starts
\* nothing and has attempted = 0 and succeeded = 0.
C6_SecondRunAlwaysIdle == run >= 2 => SecondRunIdle

\* C6 amended: when every manifest item that has a url has a file at its
\* destination at the start of a later run, that run plans and starts
\* nothing and has attempted = 0 and succeeded = 0.
C6_SecondRunIdleWhenAllExist ==
    (run >= 2 /\ AllDestinationsExist(fs0)) => SecondRunIdle

\* the first run transferred something and the second run has reported
C6_Witness ==
    /\ run = 2
    /\ pc = "done"
    /\ log[1].attempted >= 1
    /\ log[2].ended = "reported"
    /\ AllDestinationsExist(fs0)

\* ---------------------------------------------------------------------- C7
\* an item qualifies: its url is present and not empty and no file exists
\* at its destination
Qualifies(item) == HasUrl(item) /\ fs0[OutputPath(item)] = "absent"

RECURSIVE QualifyingTasks(_)
QualifyingTasks(its) ==
    IF its = <<>> THEN <<>>
    ELSE IF Qualifies(Head(its))
         THEN <<<<Head(its)["URL"], OutputPath(Head(its))>>>> \o QualifyingTasks(Tail(its))
         ELSE QualifyingTasks(Tail(its))

MinOf(a, b) == IF a <= b THEN a ELSE b

ReferencePlan ==
    SubSeq(QualifyingTasks(items), 1, MinOf(max_downloads, Len(QualifyingTasks(items))))

Planned == pc \in {"submit", "aggregate", "unwinding", "report"}

\* C7: the planned list is the first min(max_downloads, q) qualifying items
\* in manifest order.
C7_PlanIsReference == Planned => to_download = ReferencePlan

\* ---------------------------------------------------------------------- C8
\* C8: an item is inspected only while fewer than max_downloads tasks have
\* been emitted; with the cap reached before the first item nothing is
\* inspected.
C8_NoScanPastCap == [][idx' = idx + 1 => Len(to_download) < max_downloads]_vars

\* ---------------------------------------------------------------------- C9
\* C9: the destination paths of the planned tasks are pairwise distinct.
C9_DistinctDestinations ==
    \A j, k \in 1..Len(to_download) :
        j # k => Path(to_download[j]) # Path(to_download[k])

\* --------------------------------------------------------------------- C10
\* C10: whatever the manifest request yields, fetch_sds_index returns, and
\* it returns the empty list unless the body is an object with a list Items.
C10_FetchNeverRaises ==
    [][pc = "fetch" /\ pc' # "fetch" =>
          /\ pc' = "fetched"
          /\ (response # "ok" => items' = <<>>)]_vars

\* --------------------------------------------------------------------- C11
\* the fetch failed or gave no items: fetch_sds_index has run and main holds
\* no item
FetchGaveNothing == pc \notin {"fetch"} /\ items = <<>>

\* C11: when the manifest fetch fails or yields no items, main ends without
\* a directory creation, an existence check or a transfer, and discovered,
\* attempted and succeeded are 0.
C11_NoItemsNoWork ==
    FetchGaveNothing =>
        /\ pc \in {"fetched", "done", "raised"}
        /\ mkdir_calls = 0
        /\ idx = 0
        /\ to_download = <<>>
        /\ futures = <<>>
        /\ fs = fs0
        /\ success_count = 0
        /\ (Len(log) = run =>
               /\ log[run].discovered = 0
               /\ log[run].attempted = 0
               /\ log[run].succeeded = 0)

\* a run whose manifest request timed out has ended
C11_Witness ==
    /\ response = "timeout"
    /\ pc = "done"
    /\ Len(log) = run
    /\ log[run].ended = "no_items"

\* --------------------------------------------------------------------- C12
\* C12: an existence check, a submission or a transfer happens only after
\* the output directory has been created in that run; when the creation
\* fails the run ends and none of them happens.
C12_DirectoryFirst ==
    /\ (idx > 0 \/ to_download # <<>> \/ futures # <<>>) =>
           (mkdir_calls = 1 /\ dir = "present")
    /\ (mkdir_calls = 1 /\ dir # "present") =>
           /\ pc = "done"
           /\ idx = 0
           /\ to_download = <<>>
           /\ futures = <<>>
           /\ fs = fs0

\* the directory could not be created and the run has ended
C12_Witness ==
    /\ mkdir_calls = 1
    /\ dir = "blocked"
    /\ items # <<>>
    /\ pc = "done"

\* --------------------------------------------------------------------- C13
\* C13: every run ends with the report of the final counts and never by an
\* exception, and the aggregation loop is left only when every submitted
\* task has produced its outcome and every outcome has been taken.
C13_RunEndsWithReport ==
    /\ pc # "raised"
    /\ (pc \in {"unwinding", "report", "done", "raised"} /\ futures # <<>>) =>
           (Finished = Tasks /\ consumed = Tasks)

\* --------------------------------------------------------------------- C14
AsciiSafe == AsciiLetters \cup AsciiDigits \cup {"_", "-", ".", " "}

NoTrailingWhitespace(s) == s = <<>> \/ ~isspace(s[Len(s)])

\* C14 as stated: the result has only characters of [A-Za-z0-9_\- .] and
\* no trailing whitespace.
C14_OnlyAsciiSafeChars ==
    pc = "sanitized" =>
        /\ \A i \in 1..Len(san_out) : san_out[i] \in AsciiSafe
        /\ NoTrailingWhitespace(san_out)

\* the characters of the alphabet that may appear in a result: ASCII
\* letters and digits, letters and digits outside ASCII, and _ - . space
KeptChars == AsciiSafe \cup NonAsciiAlnum

\* C14 amended: the result has only letters and digits (ASCII or not) and
\* the characters _ - . and space, and no trailing whitespace.
C14_OnlyKeptChars ==
    pc = "sanitized" =>
        /\ \A i \in 1..Len(san_out) : san_out[i] \in KeptChars
        /\ NoTrailingWhitespace(san_out)

\* a name with a letter outside ASCII, a punctuation character and a
\* trailing space has been sanitized
C14_Witness ==
    /\ pc = "sanitized"
    /\ san_in = <<"e_acute", "/", " ">>
    /\ san_out = <<"e_acute">>

\* --------------------------------------------------------------------- C15
\* C15: no two tasks that are in flight at the same time have the same
\* destination path.
C15_NoSharedDestinationInFlight ==
    \A j, k \in InFlight :
        j # k => Path(to_download[j]) # Path(to_download[k])

\* --------------------------------------------------------------------- C16
TaskPaths(tasks) == {Path(task) : task \in tasks}

PlannedNow == {to_download[k] : k \in 1..Len(to_download)}

\* C16: a task of the previous run that failed after open() left a file, and
\* this run plans nothing for that path; a task of the previous run that
\* failed before open() left no file, and this run plans it again.
C16_RetryOnlyWithoutFile ==
    (run >= 2 /\ Planned) =>
        /\ \A task \in prev_failed.late :
               /\ fs0[Path(task)] # "absent"
               /\ Path(task) \notin TaskPaths(PlannedNow)
        /\ \A task \in prev_failed.early :
               /\ fs0[Path(task)] = "absent"
               /\ task \in PlannedNow

\* --------------------------------------------------------------------- C17
\* C17: in the final line X/Y, Y is the number of items of the manifest and
\* X is succeeded, and 0 <= X <= attempted <= Y.
C17_ReportCounts ==
    /\ \A r \in 1..Len(log) :
           log[r].ended = "reported" =>
               /\ log[r].discovered = Len(manifest)
               /\ 0 <= log[r].succeeded
               /\ log[r].succeeded <= log[r].attempted
               /\ log[r].attempted <= log[r].discovered
    /\ (pc = "done" /\ Len(log) = run /\ log[run].ended = "reported") =>
           /\ log[run].succeeded = Cardinality(Succeeded)
           /\ log[run].attempted = Len(futures)

\* a run has reported fewer successes than tasks and fewer tasks than items
C17_Witness ==
    /\ pc = "done"
    /\ Len(log) = run
    /\ log[run].ended = "reported"
    /\ log[run].succeeded < log[run].attempted
    /\ log[run].attempted < log[run].discovered

\* --------------------------------------------------------------------- C18
\* C18: while the planning loop runs no task has been submitted and no file
\* has changed since the run began, and a future exists only after the
\* loop has ended.
C18_PlanningPrecedesExecution ==
    /\ pc = "plan" => (futures = <<>> /\ fs = fs0)
    /\ futures # <<>> => pc \in {"aggregate", "unwinding", "report", "done", "raised"}

\* two items have been inspected and a task of the run has opened its file
C18_Witness ==
    /\ idx >= 2
    /\ \E t \in Tasks : futures[t].opened

\* --------------------------------------------------------------------- C19
\* C19: a path that held a file when the run began planning holds the same
\* file in every later state of the run.
C19_ExistingFilesUntouched ==
    \A p \in Paths : fs0[p] # "absent" => fs[p] = fs0[p]

\* planning has inspected an item whose destination existed, and another
\* task of the run has written its file
C19_Witness ==
    /\ \E i \in 1..idx : HasUrl(items[i]) /\ fs0[DestinationOf[items[i]]] # "absent"
    /\ \E t \in Tasks : futures[t].result = "True"

\* --------------------------------------------------------------------- C20
\* C20: once download_all_sds_files has returned or has been left by an
\* exception, no task is queued or in flight, and no file changes until
\* the next run.
C20_NoTaskOutlivesTheCall ==
    /\ [](pc \in {"report", "done", "raised"} => (Queued = {} /\ InFlight = {}))
    /\ [][(pc \in {"report", "done", "raised"}) => (fs' = fs)]_vars

\* the call was left by an exception before the loop had taken every outcome
C20_Witness ==
    /\ pc = "raised"
    /\ Len(futures) >= 2
    /\ consumed # Tasks

====
